---- MODULE Spec2Model ----
(***************************************************************************)
(* Selective Repeat sender (A) and receiver (B) of sr.c, composed with the *)
(* order-preserving, lossy, corrupting channel and the single timer of the *)
(* emulator.                                                               *)
(***************************************************************************)
EXTENDS Integers, Sequences, FiniteSets, TLC

\* ---------------------------------------------------------------- bounds
MaxMsgs == 7        \* number of A_output calls explored
MaxChan == 1        \* packets in flight per direction
MaxFull == 1        \* cap of the window_full counter

\* ------------------------------------------------------ program constants
WINDOWSIZE == 6
SEQSPACE == 2 * WINDOWSIZE
NOTINUSE == -1
PayloadLen == 20
AckFill == 48          \* '0'
CorruptByte == 122     \* 'z'
CorruptNum == 999999

Slots == 0 .. (WINDOWSIZE - 1)

VARIABLES window_A, window_base_A, next_seq_A, packets_in_window,
          oldest_unacked, window_full, timer,
          window_B, window_base_B, layer5,
          chanAB, chanBA, accepted, nmsgs

senderVars == <<window_A, window_base_A, next_seq_A, packets_in_window,
                oldest_unacked>>
vars == <<window_A, window_base_A, next_seq_A, packets_in_window,
          oldest_unacked, window_full, timer,
          window_B, window_base_B, layer5,
          chanAB, chanBA, accepted, nmsgs>>

\* ---------------------------------------------------------------- helpers
\* C's % truncates toward zero.
CRem(a, b) == IF a >= 0 THEN a % b ELSE -((-a) % b)

\* window_pos = x % WINDOWSIZE; if (window_pos < 0) window_pos += WINDOWSIZE;
WindowPos(x) ==
  LET r == CRem(x, WINDOWSIZE) IN IF r < 0 THEN r + WINDOWSIZE ELSE r

\* A payload of PayloadLen bytes: its first byte and the byte filling the rest.
PayloadSum(payload) == payload[1] + (PayloadLen - 1) * payload[2]

ComputeChecksum_noPayload(packet) == packet.seqnum + packet.acknum

ComputeChecksum(packet) ==
  packet.seqnum + packet.acknum + PayloadSum(packet.payload)

IsCorrupted_never(packet) == FALSE

IsCorrupted(packet) == packet.checksum # ComputeChecksum(packet)

\* Message number j as the application hands it to A_output.
Message(j) == <<96 + j, 96 + j>>

ZeroPayload == <<0, 0>>

\* ------------------------------------------------------------- sender (A)
SenderState ==
  [window_A |-> window_A, window_base_A |-> window_base_A,
   next_seq_A |-> next_seq_A, packets_in_window |-> packets_in_window,
   oldest_unacked |-> oldest_unacked]

\* Result of a handler: the new state, packets handed to tolayer3, timer calls.
A_outputAdmits_always(s) == TRUE

A_outputAdmits_offByOne(s) == s.packets_in_window <= WINDOWSIZE

A_outputAdmits(s) == s.packets_in_window < WINDOWSIZE

A_outputPacket_offByOne(s, message) ==
  LET p == [seqnum |-> (s.next_seq_A + 1) % SEQSPACE, acknum |-> NOTINUSE,
            payload |-> message, checksum |-> 0]
  IN [p EXCEPT !.checksum = ComputeChecksum(p)]

A_outputPacket(s, message) ==
  LET p == [seqnum |-> s.next_seq_A, acknum |-> NOTINUSE,
            payload |-> message, checksum |-> 0]
  IN [p EXCEPT !.checksum = ComputeChecksum(p)]

A_outputStep(s, message) ==
  IF A_outputAdmits(s)
  THEN LET window_pos == WindowPos(s.next_seq_A - s.window_base_A)
           sendpkt == A_outputPacket(s, message)
           piw == s.packets_in_window + 1
           ou == IF piw = 1 THEN window_pos ELSE s.oldest_unacked
       IN [state |-> [window_A |-> [s.window_A EXCEPT ![window_pos] =
                                      [packet |-> sendpkt, acked |-> FALSE,
                                       sent |-> TRUE]],
                      window_base_A |-> s.window_base_A,
                      next_seq_A |-> (s.next_seq_A + 1) % SEQSPACE,
                      packets_in_window |-> piw,
                      oldest_unacked |-> ou],
           out3 |-> <<sendpkt>>,
           tcalls |-> IF window_pos = ou THEN <<"start">> ELSE <<>>,
           full |-> 0]
  ELSE [state |-> s, out3 |-> <<>>, tcalls |-> <<>>, full |-> 1]

A_inWindow_noLowerBound(s, acknum) ==
  acknum < (s.window_base_A + WINDOWSIZE) % SEQSPACE

\* packet.acknum >= window_base_A &&
\* packet.acknum < (window_base_A + WINDOWSIZE) % SEQSPACE
A_inWindow(s, acknum) ==
  /\ acknum >= s.window_base_A
  /\ acknum < (s.window_base_A + WINDOWSIZE) % SEQSPACE

RECURSIVE A_slideCount(_, _, _)
A_slideCount(w, ou, i) ==
  IF i < WINDOWSIZE /\ w[(ou + i) % WINDOWSIZE].acked
  THEN 1 + A_slideCount(w, ou, i + 1)
  ELSE 0

A_clearSlots(w, ou, n) ==
  [pos \in Slots |->
     IF \E i \in 0 .. (n - 1) : pos = (ou + i) % WINDOWSIZE
     THEN [w[pos] EXCEPT !.acked = FALSE, !.sent = FALSE]
     ELSE w[pos]]

A_inputSlides_always(s, packet) == TRUE

A_inputSlides(s, packet) == packet.acknum = s.window_base_A

A_inputStep(s, packet) ==
  LET window_pos == WindowPos(packet.acknum - s.window_base_A)
      quiet == [state |-> s, out3 |-> <<>>, tcalls |-> <<>>]
  IN IF IsCorrupted(packet) THEN quiet
     ELSE IF ~A_inWindow(s, packet.acknum) THEN quiet
     ELSE IF ~(~s.window_A[window_pos].acked /\ s.window_A[window_pos].sent)
     THEN quiet
     ELSE LET w1 == [s.window_A EXCEPT ![window_pos].acked = TRUE]
              s1 == [s EXCEPT !.window_A = w1]
          IN IF ~A_inputSlides(s, packet)
             THEN [state |-> s1, out3 |-> <<>>, tcalls |-> <<>>]
             ELSE LET slide_count == A_slideCount(w1, s.oldest_unacked, 0)
                  IN IF slide_count > 0
                     THEN LET piw == s.packets_in_window - slide_count
                          IN [state |->
                                [window_A |-> A_clearSlots(w1, s.oldest_unacked,
                                                            slide_count),
                                 window_base_A |->
                                   (s.window_base_A + slide_count) % SEQSPACE,
                                 next_seq_A |-> s.next_seq_A,
                                 packets_in_window |-> piw,
                                 oldest_unacked |->
                                   (s.oldest_unacked + slide_count) % WINDOWSIZE],
                              out3 |-> <<>>,
                              tcalls |-> IF piw > 0 THEN <<"stop", "start">>
                                         ELSE <<"stop">>]
                     ELSE [state |-> s1, out3 |-> <<>>, tcalls |-> <<>>]

A_timerinterruptStep_noRestart(s) ==
  [state |-> s, out3 |-> <<s.window_A[s.oldest_unacked].packet>>,
   tcalls |-> <<>>]

A_timerinterruptStep(s) ==
  [state |-> s, out3 |-> <<s.window_A[s.oldest_unacked].packet>>,
   tcalls |-> <<"start">>]

\* The timer after a handler's calls: starttimer leaves it running,
\* stoptimer leaves it stopped.
TimerAfter(t, calls) ==
  IF calls = <<>> THEN t ELSE calls[Len(calls)] = "start"

\* ----------------------------------------------------------- receiver (B)
ReceiverState == [window_B |-> window_B, window_base_B |-> window_base_B]

B_inWindow_noLowerBound(r, seqnum) ==
  seqnum < (r.window_base_B + WINDOWSIZE) % SEQSPACE

\* packet.seqnum >= window_base_B &&
\* packet.seqnum < (window_base_B + WINDOWSIZE) % SEQSPACE
B_inWindow(r, seqnum) ==
  /\ seqnum >= r.window_base_B
  /\ seqnum < (r.window_base_B + WINDOWSIZE) % SEQSPACE

RECURSIVE B_deliverCount_noBreak(_, _, _)
B_deliverCount_noBreak(w, base, i) ==
  IF i < WINDOWSIZE
  THEN (IF w[i].received /\ w[i].packet.seqnum = (base + i) % SEQSPACE
        THEN 1 ELSE 0) + B_deliverCount_noBreak(w, base, i + 1)
  ELSE 0

RECURSIVE B_deliverCount(_, _, _)
B_deliverCount(w, base, i) ==
  IF i < WINDOWSIZE /\ w[i].received
     /\ w[i].packet.seqnum = (base + i) % SEQSPACE
  THEN 1 + B_deliverCount(w, base, i + 1)
  ELSE 0

B_shift(w, n) ==
  [i \in Slots |->
     IF i < WINDOWSIZE - n THEN w[i + n]
     ELSE [w[i] EXCEPT !.received = FALSE]]

B_ack_noChecksum(acknum) ==
  [seqnum |-> NOTINUSE, acknum |-> acknum,
   payload |-> <<AckFill, AckFill>>, checksum |-> 0]

B_ack(acknum) ==
  LET a == [seqnum |-> NOTINUSE, acknum |-> acknum,
            payload |-> <<AckFill, AckFill>>, checksum |-> 0]
  IN [a EXCEPT !.checksum = ComputeChecksum(a)]

B_stores(r, packet) ==
  /\ ~IsCorrupted(packet)
  /\ B_inWindow(r, packet.seqnum)
  /\ ~r.window_B[WindowPos(packet.seqnum - r.window_base_B)].received

B_inputStep(r, packet) ==
  IF IsCorrupted(packet)
  THEN [state |-> r, out5 |-> <<>>,
        out3 |-> <<B_ack(IF r.window_base_B = 0 THEN SEQSPACE - 1
                         ELSE r.window_base_B - 1)>>]
  ELSE LET window_pos == WindowPos(packet.seqnum - r.window_base_B)
           ack == <<B_ack(packet.seqnum)>>
       IN IF ~B_stores(r, packet)
          THEN [state |-> r, out5 |-> <<>>, out3 |-> ack]
          ELSE LET w1 == [r.window_B EXCEPT ![window_pos] =
                            [packet |-> packet, received |-> TRUE]]
                   deliver_count == B_deliverCount(w1, r.window_base_B, 0)
               IN IF deliver_count > 0
                  THEN [state |->
                          [window_B |-> B_shift(w1, deliver_count),
                           window_base_B |->
                             (r.window_base_B + deliver_count) % SEQSPACE],
                        out5 |-> [i \in 1 .. deliver_count |->
                                    w1[i - 1].packet.payload],
                        out3 |-> ack]
                  ELSE [state |-> [r EXCEPT !.window_B = w1],
                        out5 |-> <<>>, out3 |-> ack]

\* ---------------------------------------------------------------- channel
CorruptKinds == {"payload", "seqnum", "acknum"}

Corrupt(packet, kind) ==
  CASE kind = "payload" -> [packet EXCEPT !.payload[1] = CorruptByte]
    [] kind = "seqnum" -> [packet EXCEPT !.seqnum = CorruptNum]
    [] kind = "acknum" -> [packet EXCEPT !.acknum = CorruptNum]

\* What arrives for a packet in flight: itself, or one corrupted form of it.
Arrivals(packet) == {packet} \cup {Corrupt(packet, k) : k \in CorruptKinds}

\* ------------------------------------------------------------------- Init
Init ==
  /\ window_A = [i \in Slots |->
                   [packet |-> [seqnum |-> -1, acknum |-> NOTINUSE,
                                payload |-> ZeroPayload, checksum |-> 0],
                    acked |-> FALSE, sent |-> FALSE]]
  /\ window_base_A = 0
  /\ next_seq_A = 0
  /\ packets_in_window = 0
  /\ oldest_unacked = 0
  /\ window_full = 0
  /\ timer = FALSE
  /\ window_B = [i \in Slots |->
                   [packet |-> [seqnum |-> 0, acknum |-> 0,
                                payload |-> ZeroPayload, checksum |-> 0],
                    received |-> FALSE]]
  /\ window_base_B = 0
  /\ layer5 = <<>>
  /\ chanAB = <<>>
  /\ chanBA = <<>>
  /\ accepted = <<>>
  /\ nmsgs = 0

\* ---------------------------------------------------------------- actions
SetSender(s) ==
  /\ window_A' = s.window_A
  /\ window_base_A' = s.window_base_A
  /\ next_seq_A' = s.next_seq_A
  /\ packets_in_window' = s.packets_in_window
  /\ oldest_unacked' = s.oldest_unacked

A_output ==
  /\ nmsgs < MaxMsgs
  /\ LET message == Message(nmsgs + 1)
         res == A_outputStep(SenderState, message)
     IN /\ Len(chanAB) + Len(res.out3) <= MaxChan
        /\ window_full + res.full <= MaxFull
        /\ SetSender(res.state)
        /\ chanAB' = chanAB \o res.out3
        /\ timer' = TimerAfter(timer, res.tcalls)
        /\ window_full' = window_full + res.full
        /\ accepted' = IF res.full = 0 THEN Append(accepted, message)
                       ELSE accepted
        /\ nmsgs' = nmsgs + 1
  /\ UNCHANGED <<window_B, window_base_B, layer5, chanBA>>

A_inputOn(packet) ==
  /\ chanBA # <<>>
  /\ LET res == A_inputStep(SenderState, packet)
     IN /\ SetSender(res.state)
        /\ timer' = TimerAfter(timer, res.tcalls)
  /\ chanBA' = Tail(chanBA)
  /\ UNCHANGED <<window_full, window_B, window_base_B, layer5, chanAB,
                 accepted, nmsgs>>

\* An ACK arrives from layer 3, as sent or corrupted on the way.
A_input ==
  /\ chanBA # <<>>
  /\ \E packet \in Arrivals(Head(chanBA)) : A_inputOn(packet)

A_timerinterrupt ==
  /\ timer
  /\ LET res == A_timerinterruptStep(SenderState)
     IN /\ Len(chanAB) + Len(res.out3) <= MaxChan
        /\ SetSender(res.state)
        /\ chanAB' = chanAB \o res.out3
        /\ timer' = TimerAfter(FALSE, res.tcalls)
  /\ UNCHANGED <<window_full, window_B, window_base_B, layer5, chanBA,
                 accepted, nmsgs>>

B_inputOn(packet) ==
  /\ chanAB # <<>>
  /\ LET res == B_inputStep(ReceiverState, packet)
     IN /\ Len(chanBA) + Len(res.out3) <= MaxChan
        /\ window_B' = res.state.window_B
        /\ window_base_B' = res.state.window_base_B
        /\ layer5' = layer5 \o res.out5
        /\ chanBA' = chanBA \o res.out3
  /\ chanAB' = Tail(chanAB)
  /\ UNCHANGED <<window_A, window_base_A, next_seq_A, packets_in_window,
                 oldest_unacked, window_full, timer, accepted, nmsgs>>

\* A data packet arrives from layer 3, as sent or corrupted on the way.
B_input ==
  /\ chanAB # <<>>
  /\ \E packet \in Arrivals(Head(chanAB)) : B_inputOn(packet)

LoseAB ==
  /\ chanAB # <<>>
  /\ chanAB' = Tail(chanAB)
  /\ UNCHANGED <<window_A, window_base_A, next_seq_A, packets_in_window,
                 oldest_unacked, window_full, timer, window_B,
                 window_base_B, layer5, chanBA, accepted, nmsgs>>

LoseBA ==
  /\ chanBA # <<>>
  /\ chanBA' = Tail(chanBA)
  /\ UNCHANGED <<window_A, window_base_A, next_seq_A, packets_in_window,
                 oldest_unacked, window_full, timer, window_B,
                 window_base_B, layer5, chanAB, accepted, nmsgs>>

Next ==
  \/ A_output
  \/ A_input
  \/ A_timerinterrupt
  \/ B_input
  \/ LoseAB
  \/ LoseBA

Spec == Init /\ [][Next]_vars

\* A run on a channel that neither loses nor corrupts, with a timer that
\* fires while running, and submissions made only while the window has room.
A_outputAdmitted ==
  /\ packets_in_window < WINDOWSIZE
  /\ A_output

A_inputGood ==
  /\ chanBA # <<>>
  /\ A_inputOn(Head(chanBA))

B_inputGood ==
  /\ chanAB # <<>>
  /\ B_inputOn(Head(chanAB))

LiveNext ==
  \/ A_outputAdmitted
  \/ A_inputGood
  \/ A_timerinterrupt
  \/ B_inputGood

LiveSpec ==
  /\ Init
  /\ [][LiveNext]_vars
  /\ WF_vars(A_timerinterrupt)
  /\ WF_vars(A_inputGood)
  /\ WF_vars(B_inputGood)

\* ----------------------------------------------------------------- claims
Delivered(message) == \E i \in 1 .. Len(layer5) : layer5[i] = message

\* C1: on a fair channel, with no submission rejected, every submitted
\* message is eventually passed to tolayer5 at B.
C1_EveryMessageDelivered ==
  \A j \in 1 .. MaxMsgs : (nmsgs >= j) ~> Delivered(Message(j))

IsPrefix(a, b) ==
  /\ Len(a) <= Len(b)
  /\ \A i \in 1 .. Len(a) : a[i] = b[i]

\* C2: what B has passed to tolayer5 is a prefix of the messages A_output
\* accepted, in submission order.
C2_DeliveredIsPrefix == IsPrefix(layer5, accepted)

\* A retransmitted copy of a delivered packet is in flight after B has
\* delivered several payloads and buffered one out of order.
C2_Witness ==
  /\ Len(layer5) >= 3
  /\ chanAB # <<>>
  /\ Head(chanAB).seqnum < window_base_B
  /\ \E i \in Slots : window_B[i].received

\* C3: 0 <= packets_in_window <= WINDOWSIZE in every reachable state.
C3_WindowOccupancy ==
  /\ 0 <= packets_in_window
  /\ packets_in_window <= WINDOWSIZE

\* The window is full, some ACK has been taken, and a further submission was
\* turned away.
C3_Witness ==
  /\ packets_in_window = WINDOWSIZE
  /\ \E pos \in Slots : window_A[pos].acked
  /\ window_full > 0

\* C4: when it fires with packets outstanding, A_timerinterrupt sends exactly
\* one packet, the one numbered window_base_A, restarts the timer and
\* changes no other sender state.
C4_TimeoutResendsBase ==
  [][(packets_in_window > 0 /\ A_timerinterrupt) =>
       /\ Len(chanAB') = Len(chanAB) + 1
       /\ SubSeq(chanAB', 1, Len(chanAB)) = chanAB
       /\ chanAB'[Len(chanAB')].seqnum = window_base_A
       /\ timer'
       /\ UNCHANGED senderVars]_vars

\* Slots whose content differs between two sender windows.
ChangedSlots(w1, w2) == {pos \in Slots : w1[pos] # w2[pos]}

\* C5: an ACK whose acknum is not window_base_A leaves window_base_A,
\* packets_in_window, oldest_unacked and the timer unchanged and sets at most
\* one slot's acked flag; window_base_A changes only in an A_input call
\* whose acknum equals window_base_A.
C5_NoSlideOffBase ==
  [][/\ (A_input /\ Head(chanBA).acknum # window_base_A) =>
          /\ UNCHANGED <<window_base_A, packets_in_window, oldest_unacked,
                         next_seq_A, timer>>
          /\ Cardinality(ChangedSlots(window_A, window_A')) <= 1
          /\ \A pos \in ChangedSlots(window_A, window_A') :
                window_A'[pos] = [window_A[pos] EXCEPT !.acked = TRUE]
     /\ (window_base_A' # window_base_A) =>
          /\ A_input
          /\ Head(chanBA).acknum = window_base_A]_vars

\* An ACK for a packet behind the base has been taken: a slot other than the
\* oldest is marked acknowledged and the window has not slid.
C5_Witness ==
  /\ window_base_A = 0
  /\ packets_in_window >= 3
  /\ window_A[1].acked
  /\ ~window_A[0].acked
  /\ timer

AckNums == 0 .. (SEQSPACE - 1)

\* C6: a second A_input with the same uncorrupted ACK changes nothing: the
\* sender state after two calls equals the state after one, and the second
\* call makes no timer call and sends nothing.
C6_DuplicateAckIdempotent ==
  \A a \in AckNums :
    LET r1 == A_inputStep(SenderState, B_ack(a))
        r2 == A_inputStep(r1.state, B_ack(a))
    IN /\ r2.state = r1.state
       /\ r2.tcalls = <<>>
       /\ r2.out3 = <<>>

\* The sender has slid past a sequence number and a further uncorrupted ACK
\* for that number is the next to arrive.
C6_Witness ==
  /\ chanBA # <<>>
  /\ Head(chanBA).acknum >= 0
  /\ Head(chanBA).acknum < window_base_A
  /\ packets_in_window > 0

\* Distance of a sequence number ahead of a window base, modulo SEQSPACE.
Ahead(n, base) == (n - base) % SEQSPACE

\* C7: B_input buffers an uncorrupted, not yet received data packet exactly
\* when (seqnum - window_base_B) mod SEQSPACE < WINDOWSIZE, and the packet
\* numbered window_base_B is accepted and delivered.
C7_ReceiverWindowModular ==
  chanAB # <<>> =>
    LET packet == Head(chanAB)
        d == Ahead(packet.seqnum, window_base_B)
    IN /\ B_stores(ReceiverState, packet) <=>
            (d < WINDOWSIZE /\ ~window_B[d].received)
       /\ packet.seqnum = window_base_B =>
            B_inputStep(ReceiverState, packet).out5 # <<>>

\* The sender holds the packet numbered n, sent and not yet acknowledged.
Outstanding(n) ==
  \E pos \in Slots : /\ window_A[pos].sent
                      /\ ~window_A[pos].acked
                      /\ window_A[pos].packet.seqnum = n

\* C8: A_input treats an uncorrupted ACK as inside the window exactly when
\* (acknum - window_base_A) mod SEQSPACE < WINDOWSIZE, and a first ACK for
\* the outstanding packet numbered window_base_A slides the window.
C8_SenderWindowModular ==
  chanBA # <<>> =>
    LET packet == Head(chanBA)
    IN /\ A_inWindow(SenderState, packet.acknum) <=>
            (Ahead(packet.acknum, window_base_A) < WINDOWSIZE)
       /\ (packet.acknum = window_base_A /\ Outstanding(window_base_A)) =>
            A_inputStep(SenderState, packet).state.window_base_A
              # window_base_A

\* Number of slots received in a row in window_B from slot i on.
RECURSIVE Buffered(_, _)
Buffered(w, i) ==
  IF i < WINDOWSIZE /\ w[i].received THEN 1 + Buffered(w, i + 1) ELSE 0

\* C9: an uncorrupted in-window packet that is not the base is stored with
\* no tolayer5 call and no change of window_base_B; the packet numbered
\* window_base_B is delivered followed by every contiguously buffered
\* successor, and window_base_B advances by the number delivered.
C9_OutOfOrderBuffering ==
  chanAB # <<>> =>
    LET packet == Head(chanAB)
        d == Ahead(packet.seqnum, window_base_B)
        res == B_inputStep(ReceiverState, packet)
        k == Buffered(window_B, 1)
    IN /\ (d < WINDOWSIZE /\ d # 0 /\ ~window_B[d].received) =>
            /\ res.state.window_B[d] = [packet |-> packet, received |-> TRUE]
            /\ res.out5 = <<>>
            /\ res.state.window_base_B = window_base_B
       /\ d = 0 =>
            /\ res.out5 = <<packet.payload>> \o
                           [i \in 1 .. k |-> window_B[i].packet.payload]
            /\ res.state.window_base_B = (window_base_B + 1 + k) % SEQSPACE

\* The data packets A has handed to the channel so far: the k-th accepted
\* message travels under sequence number (k - 1) mod SEQSPACE.
DataPackets ==
  {LET p == [seqnum |-> (k - 1) % SEQSPACE, acknum |-> NOTINUSE,
             payload |-> accepted[k], checksum |-> 0]
   IN [p EXCEPT !.checksum = ComputeChecksum(p)] : k \in 1 .. Len(accepted)}

\* C10: a second B_input with the same uncorrupted data packet makes no
\* tolayer5 call and leaves window_base_B and every window_B slot unchanged.
C10_ReceiverIdempotent ==
  \A packet \in DataPackets :
    LET r1 == B_inputStep(ReceiverState, packet)
        r2 == B_inputStep(r1.state, packet)
    IN /\ r2.out5 = <<>>
       /\ r2.state = r1.state

\* B has delivered a packet and buffered another, and a second copy of a
\* delivered packet is the next to arrive.
C10_Witness ==
  /\ chanAB # <<>>
  /\ Head(chanAB).seqnum < window_base_B
  /\ \E i \in Slots : window_B[i].received

\* C11: between callbacks the retransmission timer is running if and only if
\* packets_in_window > 0.
C11_TimerIffOutstanding == timer <=> (packets_in_window > 0)

\* After a slide packets are still outstanding, one of them acknowledged out
\* of order, and the timer is running.
C11_Witness ==
  /\ window_base_A > 0
  /\ packets_in_window > 1
  /\ timer
  /\ \E pos \in Slots : window_A[pos].acked

\* The timer calls A_output makes for the next message in the current state.
A_outputCalls == A_outputStep(SenderState, Message(nmsgs + 1)).tcalls

\* C12: starttimer(A) is called only while the timer is not running; A_output
\* calls it only when the admitted packet makes packets_in_window equal 1,
\* and A_input calls it only after stoptimer.
C12_NoStartWhileRunning ==
  [][/\ (A_output /\ A_outputCalls = <<"start">>) =>
          /\ ~timer
          /\ packets_in_window' = 1
     /\ A_input =>
          \A packet \in Arrivals(Head(chanBA)) :
            A_inputStep(SenderState, packet).tcalls
              \in {<<>>, <<"stop">>, <<"stop", "start">>}]_vars

\* C13: A_output with a full window sends nothing, leaves the timer and all
\* sender state alone, and only increments window_full; the message is not
\* queued.
C13_WindowFullRejects ==
  [][(packets_in_window = WINDOWSIZE /\ A_output) =>
       /\ UNCHANGED <<senderVars, timer, chanAB, accepted>>
       /\ window_full' = window_full + 1
       /\ A_outputCalls = <<>>]_vars

\* A message has been turned away: fewer messages accepted than submitted,
\* with the timer still running for the full window.
C13_Witness ==
  /\ window_full > 0
  /\ Len(accepted) < nmsgs
  /\ timer

\* C14: for every uncorrupted data packet passed to B_input, new, duplicate
\* or outside the window, B sends exactly one packet: an ACK whose acknum is
\* the packet's seqnum, with seqnum NOTINUSE and a valid checksum.
C14_SelectiveAck ==
  [][B_inputGood =>
       /\ Len(chanBA') = Len(chanBA) + 1
       /\ SubSeq(chanBA', 1, Len(chanBA)) = chanBA
       /\ LET ack == chanBA'[Len(chanBA')]
          IN /\ ack.acknum = Head(chanAB).seqnum
             /\ ack.seqnum = NOTINUSE
             /\ ~IsCorrupted(ack)]_vars

\* B has delivered something, and an ACK is in flight for a packet at or
\* beyond window_base_B: one that B buffered out of order or did not store.
C14_Witness ==
  /\ Len(layer5) > 0
  /\ chanBA # <<>>
  /\ Head(chanBA).acknum >= window_base_B

\* C15: B_input with a corrupted packet makes no tolayer5 call, leaves
\* window_base_B and every window_B slot unchanged, and sends exactly one
\* ACK whose acknum is (window_base_B - 1) mod SEQSPACE.
C15_CorruptedDataPacket ==
  chanAB # <<>> =>
    \A kind \in CorruptKinds :
      LET res == B_inputStep(ReceiverState, Corrupt(Head(chanAB), kind))
      IN /\ res.out5 = <<>>
         /\ res.state = ReceiverState
         /\ Len(res.out3) = 1
         /\ res.out3[1].acknum = (window_base_B + SEQSPACE - 1) % SEQSPACE
         /\ res.out3[1].seqnum = NOTINUSE
         /\ ~IsCorrupted(res.out3[1])

\* A corrupted packet has arrived before B delivered anything: the ACK in
\* flight names SEQSPACE - 1, and the retransmission is on its way.
C15_Witness ==
  /\ window_base_B = 0
  /\ chanBA # <<>>
  /\ Head(chanBA).acknum = SEQSPACE - 1
  /\ chanAB # <<>>

\* C16: A_input with a corrupted packet leaves all sender state unchanged,
\* sends nothing and makes no timer call.
C16_CorruptedAck ==
  chanBA # <<>> =>
    \A kind \in CorruptKinds :
      LET res == A_inputStep(SenderState, Corrupt(Head(chanBA), kind))
      IN /\ res.state = SenderState
         /\ res.out3 = <<>>
         /\ res.tcalls = <<>>

\* The ACK about to arrive would slide the window if it arrived intact.
C16_Witness ==
  /\ chanBA # <<>>
  /\ A_inputStep(SenderState, Head(chanBA)).state.window_base_A
       # window_base_A
  /\ packets_in_window > 1

\* C17: next_seq_A == (window_base_A + packets_in_window) mod SEQSPACE in
\* every reachable state; an admitted message is sent under next_seq_A, which
\* lies less than WINDOWSIZE ahead of window_base_A, and next_seq_A advances
\* by exactly 1 mod SEQSPACE.
C17_AdmissionNumbering ==
  /\ [](next_seq_A = (window_base_A + packets_in_window) % SEQSPACE)
  /\ [][(A_output /\ packets_in_window < WINDOWSIZE) =>
          /\ chanAB'[Len(chanAB')].seqnum = next_seq_A
          /\ Ahead(next_seq_A, window_base_A) < WINDOWSIZE
          /\ next_seq_A' = (next_seq_A + 1) % SEQSPACE]_vars

\* After the window has slid twice or more, a newly admitted packet is in
\* flight behind other outstanding packets.
C17_Witness ==
  /\ window_base_A >= 2
  /\ packets_in_window >= 2
  /\ chanAB # <<>>
  /\ Head(chanAB).seqnum = (next_seq_A + SEQSPACE - 1) % SEQSPACE

\* A_input would mark a slot acknowledged for this ACK.
A_inputMarks(packet) ==
  LET pos == WindowPos(packet.acknum - window_base_A)
  IN /\ ~IsCorrupted(packet)
     /\ A_inWindow(SenderState, packet.acknum)
     /\ ~window_A[pos].acked
     /\ window_A[pos].sent

\* C18: when A_input marks window_A[pos] acknowledged for an uncorrupted
\* in-window ACK, the packet in that slot has seqnum == packet.acknum; and a
\* first in-window ACK for an outstanding sequence number marks that packet
\* acknowledged instead of being treated as a duplicate.
C18_AckMarksItsPacket ==
  chanBA # <<>> =>
    LET packet == Head(chanBA)
        pos == WindowPos(packet.acknum - window_base_A)
    IN /\ A_inputMarks(packet) =>
            window_A[pos].packet.seqnum = packet.acknum
       /\ (A_inWindow(SenderState, packet.acknum)
             /\ Outstanding(packet.acknum)) =>
            /\ A_inputMarks(packet)
            /\ window_A[pos].packet.seqnum = packet.acknum

\* C19: A_output never stores over a slot that is still sent: the number of
\* sent slots equals packets_in_window, and every sequence number from
\* window_base_A up to next_seq_A still has its packet in some slot.
C19_NoOverwrite ==
  /\ packets_in_window = Cardinality({pos \in Slots : window_A[pos].sent})
  /\ \A i \in 0 .. (packets_in_window - 1) :
       \E pos \in Slots :
         /\ window_A[pos].sent
         /\ window_A[pos].packet.seqnum = (window_base_A + i) % SEQSPACE

\* Number of accepted messages the sender has retired by sliding its base.
Retired == Len(accepted) - packets_in_window

\* C20: every packet the sender has retired from its window has been
\* delivered to tolayer5 by B or is buffered in window_B.
C20_RetiredWasReceived ==
  \A k \in 1 .. Retired :
    \/ k <= Len(layer5)
    \/ \E i \in Slots : /\ window_B[i].received
                          /\ window_B[i].packet.payload = accepted[k]
====
